---- MODULE Spec2Model ----
(***************************************************************************)
(* Model of the shared packet-routing / network-discovery core of the      *)
(* dr_ones "common" crate (src/src/network_node.rs, trait NetworkNode).    *)
(*                                                                         *)
(* Six specifications share the variables:                                 *)
(*   Spec        one node (UnitNode) driven through its public operations  *)
(*               by a harness that holds the receivers of its neighbour    *)
(*               channels, as the crate's own unit test does;              *)
(*   SpecFail    the same node while the receivers of its neighbours and   *)
(*               of the simulation controller are dropped;                 *)
(*   SpecBuild   the pure builders (build_ack, build_nack,                 *)
(*               reverse_packet_routing_direction) applied to inputs drawn *)
(*               in the initial state;                                     *)
(*   SpecLinear  the three-node line 1 - 2 - 3, every node running the     *)
(*               shared flood handler on what arrives on its channel;      *)
(*   SpecNet     three nodes with any neighbour tables, cycles included,   *)
(*               every node taking packets from its channel (fairness);    *)
(*   SpecLog     two threads using the process-wide logging state of       *)
(*               src/src/logging.rs.                                       *)
(***************************************************************************)
EXTENDS Integers, Sequences, FiniteSets, TLC

VARIABLES
    packet_send,      \* node -> (NodeId -> channel): each node's Neighbor Table
    seen_flood_ids,   \* node -> set of stored flood keys (strings)
    chan,             \* channel -> sequence of packets waiting at its receiver
    connected,        \* channel -> whether its receiver still exists
    sim_connected,    \* whether the simulation controller's receiver exists
    initiated,        \* SpecLinear: floods already started, as <<initiator, flood id>>
    propagated,       \* history: node -> the <<initiator, flood id>> it has broadcast
    last,             \* the operation performed last, its arguments and what it did
    LOGGING_ENABLED,  \* logging.rs: the process-wide flag of stdout logging
    LOG_FILE,         \* logging.rs: the process-wide log file, "None" or "Some"
    log_pc,           \* thread -> where it stands inside a logging operation
    log_out,          \* the lines written so far, each with the sink it went to
    request_copies    \* history: flood -> FloodRequest copies sent for it so far

logvars == <<LOGGING_ENABLED, LOG_FILE, log_pc, log_out>>

vars == <<packet_send, seen_flood_ids, chan, connected, sim_connected, initiated,
         propagated, last, LOGGING_ENABLED, LOG_FILE, log_pc, log_out, request_copies>>

----------------------------------------------------------------------------
(* Bounds and value sets *)

\* longest path trace of a FloodRequest handed to the node under test
MaxTraceLen == 2
\* longest hop list of a header handed to the builders
MaxHops == 3
Nodes == {1, 2, 3}
NodeIds == {1, 2, 3}
UnitNode == 2

\* <<initiator id, flood id>> of the requests handed to the node under test:
\* two initiators that use the same flood id, and the two pairs whose keys
\* would be the same text without the separator
FloodPairs == {<<1, 1>>, <<11, 1>>, <<1, 11>>}

FragmentIndexes == {0, 5}
SessionIds == {42}
NackTypes == {"Dropped", "DestinationIsDrone"}

\* values the random generator of a node may return next (StdRng::from_entropy)
RngFirst == 1001
RngDraws == {RngFirst, 1002}

NodeTypeOf(id) == CASE id = 1 -> "Client" [] id = 3 -> "Server" [] OTHER -> "Drone"

----------------------------------------------------------------------------
(* Packets *)

MsgFragment(k) == [tag |-> "MsgFragment", fragment_index |-> k]
Ack(k) == [tag |-> "Ack", fragment_index |-> k]
Nack(k, t) == [tag |-> "Nack", fragment_index |-> k, nack_type |-> t]
FloodRequest(f, i, trace) ==
    [tag |-> "FloodRequest", flood_id |-> f, initiator_id |-> i, path_trace |-> trace]
FloodResponse(f, trace) == [tag |-> "FloodResponse", flood_id |-> f, path_trace |-> trace]

SourceRoutingHeader(idx, hs) == [hop_index |-> idx, hops |-> hs]
Packet(pt, rh, sid) == [pack_type |-> pt, routing_header |-> rh, session_id |-> sid]

\* the outcome of an operation that panicked / that returned a packet
Panicked == [ok |-> FALSE]
Returned(p) == [ok |-> TRUE, packet |-> p]

----------------------------------------------------------------------------
(* Vec helpers, 0-based as in the source *)

\* Vec::reverse
VecReverse(v) == [i \in 1..Len(v) |-> v[Len(v) + 1 - i]]

\* v[i] with a 0-based index
At(v, i) == v[i + 1]

\* what is left of v after v.drain(a..=b); callers check the range first
DrainInclusive(v, a, b) == SubSeq(v, 1, a) \o SubSeq(v, b + 2, Len(v))

\* whether v.drain(a..=b) panics: b = len - 1 underflows on an empty vector,
\* and a range that starts after its end or ends after the vector is rejected
DrainPanics(v, a) == Len(v) = 0 \/ a > Len(v)

----------------------------------------------------------------------------
(* reverse_packet_routing_direction, build_ack, build_nack *)

\* a reversal that forgets to discard the hops beyond the cursor
reverse_keeping_untravelled_hops(packet) ==
    IF DrainPanics(packet.routing_header.hops, packet.routing_header.hop_index + 1)
    THEN Panicked
    ELSE Returned([packet EXCEPT !.routing_header =
            SourceRoutingHeader(1, VecReverse(packet.routing_header.hops))])

reverse_packet_routing_direction(packet) ==
    LET hops == packet.routing_header.hops
        from == packet.routing_header.hop_index + 1
    IN  IF DrainPanics(hops, from)
        THEN Panicked
        ELSE Returned([packet EXCEPT !.routing_header =
                SourceRoutingHeader(1, VecReverse(DrainInclusive(hops, from, Len(hops) - 1)))])

\* a build_ack that loses the fragment index
build_ack_index_zero(packet) ==
    IF packet.pack_type.tag = "MsgFragment"
    THEN reverse_packet_routing_direction(
            Packet(Ack(0), packet.routing_header, packet.session_id))
    ELSE Panicked

\* a build_ack as tolerant as build_nack: index 0 for a payload that is no fragment
build_ack_tolerant(packet) ==
    reverse_packet_routing_direction(
        Packet(Ack(IF packet.pack_type.tag = "MsgFragment"
                   THEN packet.pack_type.fragment_index ELSE 0),
               packet.routing_header, packet.session_id))

build_ack(packet) ==
    IF packet.pack_type.tag = "MsgFragment"
    THEN reverse_packet_routing_direction(
            Packet(Ack(packet.pack_type.fragment_index),
                   packet.routing_header, packet.session_id))
    ELSE Panicked

\* a build_nack as strict as build_ack: it aborts on a payload that is no fragment
build_nack_strict(packet, nack_type) ==
    IF packet.pack_type.tag = "MsgFragment"
    THEN reverse_packet_routing_direction(
            Packet(Nack(packet.pack_type.fragment_index, nack_type),
                   packet.routing_header, packet.session_id))
    ELSE Panicked

build_nack(packet, nack_type) ==
    LET fragment_index == IF packet.pack_type.tag = "MsgFragment"
                          THEN packet.pack_type.fragment_index
                          ELSE 0
    IN  reverse_packet_routing_direction(
            Packet(Nack(fragment_index, nack_type),
                   packet.routing_header, packet.session_id))

----------------------------------------------------------------------------
(* The stored flood key: initiator_id.to_string() + "_" + flood_id.to_string() *)

DigitChar(d) == <<"0", "1", "2", "3", "4", "5", "6", "7", "8", "9">>[d + 1]

\* the decimal text of an unsigned integer, one character per element
RECURSIVE to_string(_)
to_string(n) == IF n < 10 THEN <<DigitChar(n)>>
               ELSE to_string(n \div 10) \o <<DigitChar(n % 10)>>

\* the key of the earlier snapshot: the flood id alone
FloodKey_flood_id_only(initiator_id, flood_id) == to_string(flood_id)

FloodKey(initiator_id, flood_id) ==
    to_string(initiator_id) \o <<"_">> \o to_string(flood_id)

----------------------------------------------------------------------------
(* What an operation does to the outside, in the order it does it *)

\* PacketSent(packet) offered to the simulation controller; ok = it was accepted
EventEffect(packet, ok) == [kind |-> "event", packet |-> packet, ok |-> ok]
\* packet offered to the channel the table holds for neighbour id; ok = accepted
SendEffect(id, ch, packet, ok) ==
    [kind |-> "send", id |-> id, to |-> ch, packet |-> packet, ok |-> ok]
\* a diagnostic line: log_error!, log_status!, println! or eprintln!
LogEffect(how) == [kind |-> "log", how |-> how]

\* the PacketSent emission of forward_packet and broadcast_packet
EmitPacketSent(packet, simc) ==
    <<EventEffect(packet, simc)>> \o (IF simc THEN <<>> ELSE <<LogEffect("log_error")>>)

Sends(effects) == SelectSeq(effects, LAMBDA e : e.kind = "send")
Events(effects) == SelectSeq(effects, LAMBDA e : e.kind = "event")

EmptyChans == [c \in Nodes |-> <<>>]

\* the channels after the accepted sends of effects, in order
RECURSIVE Deliver(_, _)
Deliver(ch, effects) ==
    IF effects = <<>> THEN ch
    ELSE LET e == Head(effects)
             ch1 == IF e.kind = "send" /\ e.ok
                    THEN [ch EXCEPT ![e.to] = Append(@, e.packet)]
                    ELSE ch
         IN Deliver(ch1, Tail(effects))

----------------------------------------------------------------------------
(* forward_packet *)

\* a forward that sends first and reports the PacketSent event afterwards
forward_packet_send_first(self, table, conn, simc, packet) ==
    LET rh == packet.routing_header
    IN  IF rh.hop_index >= Len(rh.hops)
        THEN [effects |-> <<>>, ok |-> FALSE]
        ELSE LET next_hop_id == At(rh.hops, rh.hop_index)
             IN  IF next_hop_id \in DOMAIN table
                 THEN LET ch == table[next_hop_id]
                      IN [effects |-> <<SendEffect(next_hop_id, ch, packet, conn[ch])>>
                                      \o (IF conn[ch] THEN EmitPacketSent(packet, simc)
                                          ELSE <<>>),
                          ok |-> conn[ch]]
                 ELSE [effects |-> <<LogEffect("log_status")>>, ok |-> TRUE]

\* a forward that treats a missing channel as fatal, as the earlier snapshot documents
forward_packet_strict(self, table, conn, simc, packet) ==
    LET rh == packet.routing_header
    IN  IF rh.hop_index >= Len(rh.hops)
        THEN [effects |-> <<>>, ok |-> FALSE]
        ELSE LET next_hop_id == At(rh.hops, rh.hop_index)
             IN  IF next_hop_id \in DOMAIN table
                 THEN LET ch == table[next_hop_id]
                      IN [effects |-> EmitPacketSent(packet, simc)
                                      \o <<SendEffect(next_hop_id, ch, packet, conn[ch])>>,
                          ok |-> conn[ch]]
                 ELSE [effects |-> <<LogEffect("log_status")>>, ok |-> FALSE]

\* a forward that, finding no channel for the next hop, uses one the table has
forward_packet_any_channel(self, table, conn, simc, packet) ==
    LET rh == packet.routing_header
    IN  IF rh.hop_index >= Len(rh.hops)
        THEN [effects |-> <<>>, ok |-> FALSE]
        ELSE LET next_hop_id == At(rh.hops, rh.hop_index)
                 via == IF next_hop_id \in DOMAIN table \/ DOMAIN table = {}
                        THEN next_hop_id
                        ELSE CHOOSE k \in DOMAIN table : TRUE
             IN  IF via \in DOMAIN table
                 THEN LET ch == table[via]
                      IN [effects |-> EmitPacketSent(packet, simc)
                                      \o <<SendEffect(via, ch, packet, conn[ch])>>,
                          ok |-> conn[ch]]
                 ELSE [effects |-> <<LogEffect("log_status")>>, ok |-> TRUE]

\* a forward that gives up when the controller does not take the event
forward_packet_event_required(self, table, conn, simc, packet) ==
    LET rh == packet.routing_header
    IN  IF rh.hop_index >= Len(rh.hops)
        THEN [effects |-> <<>>, ok |-> FALSE]
        ELSE LET next_hop_id == At(rh.hops, rh.hop_index)
             IN  IF next_hop_id \in DOMAIN table
                 THEN LET ch == table[next_hop_id]
                      IN IF simc
                         THEN [effects |-> EmitPacketSent(packet, simc)
                                      \o <<SendEffect(next_hop_id, ch, packet, conn[ch])>>,
                               ok |-> conn[ch]]
                         ELSE [effects |-> EmitPacketSent(packet, simc), ok |-> FALSE]
                 ELSE [effects |-> <<LogEffect("log_status")>>, ok |-> TRUE]

\* a forward that logs a failed send and returns normally
forward_packet_lenient(self, table, conn, simc, packet) ==
    LET rh == packet.routing_header
    IN  IF rh.hop_index >= Len(rh.hops)
        THEN [effects |-> <<>>, ok |-> FALSE]
        ELSE LET next_hop_id == At(rh.hops, rh.hop_index)
             IN  IF next_hop_id \in DOMAIN table
                 THEN LET ch == table[next_hop_id]
                      IN [effects |-> EmitPacketSent(packet, simc)
                                      \o <<SendEffect(next_hop_id, ch, packet, conn[ch])>>
                                      \o (IF conn[ch] THEN <<>> ELSE <<LogEffect("println")>>),
                          ok |-> TRUE]
                 ELSE [effects |-> <<LogEffect("log_status")>>, ok |-> TRUE]

forward_packet(self, table, conn, simc, packet) ==
    LET rh == packet.routing_header
    IN  IF rh.hop_index >= Len(rh.hops)
        THEN [effects |-> <<>>, ok |-> FALSE]           \* index out of bounds
        ELSE LET next_hop_id == At(rh.hops, rh.hop_index)
             IN  IF next_hop_id \in DOMAIN table
                 THEN LET ch == table[next_hop_id]
                      IN [effects |-> EmitPacketSent(packet, simc)
                                      \o <<SendEffect(next_hop_id, ch, packet, conn[ch])>>,
                          ok |-> conn[ch]]              \* expect() on the send
                 ELSE [effects |-> <<LogEffect("log_status")>>, ok |-> TRUE]

----------------------------------------------------------------------------
(* broadcast_packet *)

\* a broadcast that does not leave out the sender
Eligible_sender_included(table, who_i_received_the_packet_from) == DOMAIN table

\* the neighbours a broadcast serves: every key of the table but the sender
Eligible(table, who_i_received_the_packet_from) ==
    {k \in DOMAIN table : k # who_i_received_the_packet_from}

\* the orders in which a HashMap over the set S may be iterated
Orders(S) == {o \in [1..Cardinality(S) -> S] : \A i, j \in DOMAIN o : o[i] = o[j] => i = j}

\* a broadcast whose copies keep the cursor on the sending node (hop_index 0)
BroadcastOne_cursor_zero(self, table, conn, simc, packet, node_id) ==
    LET packet_to_send == [packet EXCEPT !.routing_header =
                               SourceRoutingHeader(0, <<self, node_id>>)]
        ch == table[node_id]
    IN  EmitPacketSent(packet_to_send, simc)
        \o <<SendEffect(node_id, ch, packet_to_send, conn[ch])>>
        \o (IF conn[ch] THEN <<>> ELSE <<LogEffect("println")>>)

\* a broadcast that reports PacketSent only for the copies a channel accepted
BroadcastOne_event_on_success(self, table, conn, simc, packet, node_id) ==
    LET packet_to_send == [packet EXCEPT !.routing_header =
                               SourceRoutingHeader(1, <<self, node_id>>)]
        ch == table[node_id]
    IN  <<SendEffect(node_id, ch, packet_to_send, conn[ch])>>
        \o (IF conn[ch] THEN EmitPacketSent(packet_to_send, simc)
            ELSE <<LogEffect("println")>>)

\* one iteration of the loop of broadcast_packet
BroadcastOne(self, table, conn, simc, packet, node_id) ==
    LET packet_to_send == [packet EXCEPT !.routing_header =
                               SourceRoutingHeader(1, <<self, node_id>>)]
        ch == table[node_id]
    IN  EmitPacketSent(packet_to_send, simc)
        \o <<SendEffect(node_id, ch, packet_to_send, conn[ch])>>
        \o (IF conn[ch] THEN <<>> ELSE <<LogEffect("println")>>)

\* order: the iteration order of the filtered neighbour map
RECURSIVE broadcast_packet(_, _, _, _, _, _)
broadcast_packet(self, table, conn, simc, packet, order) ==
    IF order = <<>> THEN <<>>
    ELSE BroadcastOne(self, table, conn, simc, packet, Head(order))
         \o broadcast_packet(self, table, conn, simc, packet, Tail(order))

----------------------------------------------------------------------------
(* build_flood_response, handle_flood_request, handle_packet *)

\* a response whose cursor stays on the responding node (hop_index 0)
build_flood_response_cursor_zero(packet, path_trace) ==
    IF packet.pack_type.tag = "FloodRequest"
    THEN Returned(Packet(FloodResponse(packet.pack_type.flood_id, path_trace),
                         SourceRoutingHeader(0,
                            VecReverse([i \in 1..Len(path_trace) |-> path_trace[i][1]])),
                         packet.pack_type.flood_id))
    ELSE Panicked

\* a response routed along the trace as recorded, not reversed
build_flood_response_unreversed(packet, path_trace) ==
    IF packet.pack_type.tag = "FloodRequest"
    THEN Returned(Packet(FloodResponse(packet.pack_type.flood_id, path_trace),
                         SourceRoutingHeader(1,
                            [i \in 1..Len(path_trace) |-> path_trace[i][1]]),
                         packet.pack_type.flood_id))
    ELSE Panicked

\* a response built from the trace inside the request, without the node's own entry
build_flood_response_from_packet_trace(packet, path_trace) ==
    IF packet.pack_type.tag = "FloodRequest"
    THEN LET trace == packet.pack_type.path_trace
             route_back == VecReverse([i \in 1..Len(trace) |-> trace[i][1]])
         IN Returned(Packet(FloodResponse(packet.pack_type.flood_id, trace),
                            SourceRoutingHeader(1, route_back),
                            packet.pack_type.flood_id))
    ELSE Panicked

build_flood_response(packet, path_trace) ==
    IF packet.pack_type.tag = "FloodRequest"
    THEN LET route_back == VecReverse([i \in 1..Len(path_trace) |-> path_trace[i][1]])
         IN Returned(Packet(FloodResponse(packet.pack_type.flood_id, path_trace),
                            SourceRoutingHeader(1, route_back),
                            packet.pack_type.flood_id))
    ELSE Panicked

\* a lookup that builds the key with its two parts exchanged
flood_request_is_already_received_swapped(seen, flood_request) ==
    \E id \in seen : id = FloodKey(flood_request.flood_id, flood_request.initiator_id)

flood_request_is_already_received(seen, flood_request) ==
    \E id \in seen : id = FloodKey(flood_request.initiator_id, flood_request.flood_id)

\* a dead-end test that asks for an empty table
has_no_neighbour_when_empty(table) == Cardinality(DOMAIN table) = 0

has_no_neighbour(table) == Cardinality(DOMAIN table) = 1

\* the sender of a flood request: the node of the last entry of its path trace
WhoSentMe(flood_request) == flood_request.path_trace[Len(flood_request.path_trace)][1]

\* the iteration orders the handler of packet may meet in its broadcast
BroadcastOrders(table, packet) ==
    IF packet.pack_type.tag = "FloodRequest" /\ packet.pack_type.path_trace # <<>>
    THEN Orders(Eligible(table, WhoSentMe(packet.pack_type)))
    ELSE {<<>>}

\* a handler that broadcasts without recording the flood's key
handle_flood_request_forgetful(self, node_type, table, seen, conn, simc, packet, order) ==
    IF packet.pack_type.tag # "FloodRequest"
    THEN [branch |-> "not_a_flood_request", seen |-> seen,
          effects |-> <<LogEffect("eprintln")>>, ok |-> TRUE]
    ELSE IF packet.pack_type.path_trace = <<>>
    THEN [branch |-> "no_sender", seen |-> seen, effects |-> <<>>, ok |-> FALSE]
    ELSE
      LET incoming == packet.pack_type
          flood_request == [incoming EXCEPT !.path_trace = Append(@, <<self, node_type>>)]
      IN  IF flood_request_is_already_received(seen, flood_request) \/ has_no_neighbour(table)
          THEN LET built == build_flood_response(packet, flood_request.path_trace)
                   fwd == forward_packet(self, table, conn, simc, built.packet)
               IN [branch |-> "respond", seen |-> seen, response |-> built.packet,
                   effects |-> fwd.effects, ok |-> fwd.ok]
          ELSE LET updated_packet == Packet(flood_request, packet.routing_header,
                                            packet.session_id)
               IN [branch |-> "broadcast", seen |-> seen,
                   effects |-> broadcast_packet(self, table, conn, simc,
                                                updated_packet, order),
                   ok |-> TRUE]

\* a handler that passes the request on with the trace it came with
handle_flood_request_trace_as_received(self, node_type, table, seen, conn, simc, packet, order) ==
    IF packet.pack_type.tag # "FloodRequest"
    THEN [branch |-> "not_a_flood_request", seen |-> seen,
          effects |-> <<LogEffect("eprintln")>>, ok |-> TRUE]
    ELSE IF packet.pack_type.path_trace = <<>>
    THEN [branch |-> "no_sender", seen |-> seen, effects |-> <<>>, ok |-> FALSE]
    ELSE
      LET incoming == packet.pack_type
          flood_request == [incoming EXCEPT !.path_trace = Append(@, <<self, node_type>>)]
      IN  IF flood_request_is_already_received(seen, flood_request) \/ has_no_neighbour(table)
          THEN LET built == build_flood_response(packet, flood_request.path_trace)
                   fwd == forward_packet(self, table, conn, simc, built.packet)
               IN [branch |-> "respond", seen |-> seen, response |-> built.packet,
                   effects |-> fwd.effects, ok |-> fwd.ok]
          ELSE [branch |-> "broadcast",
                seen |-> seen \cup {FloodKey(flood_request.initiator_id,
                                             flood_request.flood_id)},
                effects |-> broadcast_packet(self, table, conn, simc, packet, order),
                ok |-> TRUE]

\* a handler that records the flood's key on the respond branch as well
handle_flood_request_recording_responses(self, node_type, table, seen, conn, simc, packet, order) ==
    IF packet.pack_type.tag # "FloodRequest"
    THEN [branch |-> "not_a_flood_request", seen |-> seen,
          effects |-> <<LogEffect("eprintln")>>, ok |-> TRUE]
    ELSE IF packet.pack_type.path_trace = <<>>
    THEN [branch |-> "no_sender", seen |-> seen, effects |-> <<>>, ok |-> FALSE]
    ELSE
      LET incoming == packet.pack_type
          flood_request == [incoming EXCEPT !.path_trace = Append(@, <<self, node_type>>)]
          key == FloodKey(flood_request.initiator_id, flood_request.flood_id)
      IN  IF flood_request_is_already_received(seen, flood_request) \/ has_no_neighbour(table)
          THEN LET built == build_flood_response(packet, flood_request.path_trace)
                   fwd == forward_packet(self, table, conn, simc, built.packet)
               IN [branch |-> "respond", seen |-> seen \cup {key}, response |-> built.packet,
                   effects |-> fwd.effects, ok |-> fwd.ok]
          ELSE LET updated_packet == Packet(flood_request, packet.routing_header,
                                            packet.session_id)
               IN [branch |-> "broadcast", seen |-> seen \cup {key},
                   effects |-> broadcast_packet(self, table, conn, simc,
                                                updated_packet, order),
                   ok |-> TRUE]

handle_flood_request(self, node_type, table, seen, conn, simc, packet, order) ==
    IF packet.pack_type.tag # "FloodRequest"
    THEN [branch |-> "not_a_flood_request", seen |-> seen,
          effects |-> <<LogEffect("eprintln")>>, ok |-> TRUE]
    ELSE IF packet.pack_type.path_trace = <<>>
    THEN [branch |-> "no_sender", seen |-> seen, effects |-> <<>>, ok |-> FALSE]
    ELSE
      LET incoming == packet.pack_type
          flood_request == [incoming EXCEPT !.path_trace = Append(@, <<self, node_type>>)]
      IN  IF flood_request_is_already_received(seen, flood_request) \/ has_no_neighbour(table)
          THEN LET built == build_flood_response(packet, flood_request.path_trace)
                   fwd == forward_packet(self, table, conn, simc, built.packet)
               IN [branch |-> "respond", seen |-> seen, response |-> built.packet,
                   effects |-> fwd.effects, ok |-> fwd.ok]
          ELSE LET updated_packet == Packet(flood_request, packet.routing_header,
                                            packet.session_id)
               IN [branch |-> "broadcast",
                   seen |-> seen \cup {FloodKey(flood_request.initiator_id,
                                                flood_request.flood_id)},
                   effects |-> broadcast_packet(self, table, conn, simc,
                                                updated_packet, order),
                   ok |-> TRUE]

\* a dispatcher that takes every flood payload, responses too, for the flood handler
handle_packet_flood_payloads(self, node_type, crashing, table, seen, conn, simc, packet, order, routed_result) ==
    IF packet.pack_type.tag \in {"FloodRequest", "FloodResponse"}
    THEN handle_flood_request(self, node_type, table, seen, conn, simc, packet, order)
         @@ [routed |-> <<>>, returns |-> FALSE]
    ELSE [branch |-> "routed", seen |-> seen, effects |-> <<>>, ok |-> TRUE,
          routed |-> <<packet>>, returns |-> routed_result]

\* a dispatcher that returns true for a flood request when the node is set to
\* crash, without handling it (return true; in place of true;)
handle_packet_returning_when_crashing(self, node_type, crashing, table, seen, conn, simc, packet, order, routed_result) ==
    IF packet.pack_type.tag = "FloodRequest"
    THEN IF crashing
         THEN [branch |-> "crashing", seen |-> seen, effects |-> <<>>, ok |-> TRUE,
               routed |-> <<>>, returns |-> TRUE]
         ELSE handle_flood_request(self, node_type, table, seen, conn, simc, packet, order)
              @@ [routed |-> <<>>, returns |-> FALSE]
    ELSE [branch |-> "routed", seen |-> seen, effects |-> <<>>, ok |-> TRUE,
          routed |-> <<packet>>, returns |-> routed_result]

\* the default implementation of the trait
get_crashing_behavior == FALSE

\* what an implementor's get_crashing_behavior may return
CrashingBehaviors == BOOLEAN

\* routed_result: what the node's own handle_routed_packet returns
\* crashing: what get_crashing_behavior returns; the statement it guards is the
\* expression statement true; whose value is dropped
handle_packet(self, node_type, crashing, table, seen, conn, simc, packet, order, routed_result) ==
    IF packet.pack_type.tag = "FloodRequest"
    THEN handle_flood_request(self, node_type, table, seen, conn, simc, packet, order)
         @@ [routed |-> <<>>, returns |-> FALSE]
    ELSE [branch |-> "routed", seen |-> seen, effects |-> <<>>, ok |-> TRUE,
          routed |-> <<packet>>, returns |-> routed_result]

----------------------------------------------------------------------------
(* add_channel, remove_channel *)

EmptyTable == [k \in {} |-> 0]

\* an insertion that keeps the sender an id already has (entry(id).or_insert(sender))
add_channel_keeping_existing(table, id, sender) ==
    [k \in DOMAIN table \cup {id} |-> IF k \in DOMAIN table THEN table[k] ELSE sender]

add_channel(table, id, sender) ==
    [k \in DOMAIN table \cup {id} |-> IF k = id THEN sender ELSE table[k]]

\* a removal that insists on the entry: remove(&id).expect(..) without looking the id up first
remove_channel_strict(table, id) ==
    IF id \notin DOMAIN table
    THEN [table |-> table, effects |-> <<>>, ok |-> FALSE]
    ELSE [table |-> [k \in DOMAIN table \ {id} |-> table[k]], effects |-> <<>>, ok |-> TRUE]

remove_channel(table, id) ==
    IF id \notin DOMAIN table
    THEN [table |-> table, effects |-> <<LogEffect("log_error")>>, ok |-> TRUE]
    ELSE [table |-> [k \in DOMAIN table \ {id} |-> table[k]], effects |-> <<>>, ok |-> TRUE]

----------------------------------------------------------------------------
(* logging.rs: the process-wide logging state and the operations on it *)

LogThreads == {1, 2}
\* the most lines a run may start to write
MaxLogLines == 1
LogNodes == {1}

Idle == [at |-> "idle"]

\* the two statics as one value; each is guarded by its own mutex
LogState == [enabled |-> LOGGING_ENABLED, file |-> LOG_FILE]

\* the Lazy initialisers: Mutex::new(true), Mutex::new(None)
LoggingStart ==
    /\ LOGGING_ENABLED = TRUE
    /\ LOG_FILE = "None"
    /\ log_pc = [t \in LogThreads |-> Idle]
    /\ log_out = <<>>

is_logging_enabled(st) == st.enabled

\* LOG_FILE.lock().expect(..): the lock of a poisoned mutex panics
log_file_lock_panics(st) == st.file = "Poisoned"

\* has_log_file, where the lock can be taken
has_log_file(st) == st.file = "Some"

\* enable_logging: the flag under the first lock, then the file under the
\* second; the second statement panics on a poisoned LOG_FILE and leaves it
enable_logging_flag(st) == [st EXCEPT !.enabled = TRUE]
enable_logging_file(st) ==
    IF log_file_lock_panics(st) THEN st ELSE [st EXCEPT !.file = "None"]

disable_logging(st) == [st EXCEPT !.enabled = FALSE]

\* redirect_logs_to_file: the flag under the first lock, then the file under the
\* second. open_ok: whether network.log could be opened; when it could not,
\* expect() panics while the guard of LOG_FILE is held, which poisons the mutex
redirect_logs_to_file_flag(st) == [st EXCEPT !.enabled = FALSE]
redirect_logs_to_file_file(st, open_ok) ==
    IF log_file_lock_panics(st) THEN st
    ELSE IF open_ok THEN [st EXCEPT !.file = "Some"]
    ELSE [st EXCEPT !.file = "Poisoned"]

LogLine(sink, node_id, level) == [sink |-> sink, node |-> node_id, level |-> level]

\* write_to_log: a line to the file if there is one; a failed write is reported
\* on stderr; on a poisoned LOG_FILE the call panics and writes nothing
write_to_log(st, out, node_id, is_error, write_ok) ==
    IF st.file = "Some"
    THEN IF write_ok
         THEN Append(out, LogLine("file", node_id, IF is_error THEN "ERROR" ELSE "INFO"))
         ELSE Append(out, LogLine("stderr", node_id, "write failed"))
    ELSE out

LogOps == {"enable_logging", "disable_logging", "redirect_logs_to_file"}

\* history: a write to the logging state by thread t happens inside the
\* operations the other threads are in
Disturb(t, pc) ==
    [u \in LogThreads |->
        IF u = t THEN pc
        ELSE IF log_pc[u].at \in LogOps THEN [log_pc[u] EXCEPT !.alone = FALSE]
        ELSE log_pc[u]]

\* history: the logging operation that completed last and has not been followed
\* by any write to the logging state
Preceding == IF last.op \in LogOps /\ last.fresh /\ last.alone THEN last.op ELSE "none"
Stale(l) == IF l.op \in LogOps THEN [l EXCEPT !.fresh = FALSE] ELSE l

\* ok: the call returned; FALSE when it panicked. A thread whose call panicked
\* may go on (the panic caught) or end; either way the other threads go on
LogDone(op, t, pc, ok) ==
    [op |-> op, thread |-> t, pre |-> pc.pre, alone |-> pc.alone, follows |-> pc.follows,
     fresh |-> TRUE, ok |-> ok]

Started(op) == [at |-> op, pre |-> LogState, alone |-> TRUE, follows |-> Preceding]

NodeVars == <<packet_send, seen_flood_ids, chan, connected, sim_connected, initiated,
              propagated, request_copies>>

EnableLoggingFlag(t) ==
    /\ log_pc[t] = Idle
    /\ LOGGING_ENABLED' = enable_logging_flag(LogState).enabled
    /\ LOG_FILE' = enable_logging_flag(LogState).file
    /\ log_pc' = Disturb(t, Started("enable_logging"))
    /\ last' = Stale(last)
    /\ UNCHANGED <<NodeVars, log_out>>

EnableLoggingFile(t) ==
    /\ log_pc[t].at = "enable_logging"
    /\ LOGGING_ENABLED' = enable_logging_file(LogState).enabled
    /\ LOG_FILE' = enable_logging_file(LogState).file
    /\ log_pc' = Disturb(t, Idle)
    /\ last' = LogDone("enable_logging", t, log_pc[t], ~log_file_lock_panics(LogState))
    /\ UNCHANGED <<NodeVars, log_out>>

DisableLogging(t) ==
    /\ log_pc[t] = Idle
    /\ LOGGING_ENABLED' = disable_logging(LogState).enabled
    /\ LOG_FILE' = disable_logging(LogState).file
    /\ log_pc' = Disturb(t, Idle)
    /\ last' = LogDone("disable_logging", t, Started("disable_logging"), TRUE)
    /\ UNCHANGED <<NodeVars, log_out>>

RedirectLogsFlag(t) ==
    /\ log_pc[t] = Idle
    /\ LOGGING_ENABLED' = redirect_logs_to_file_flag(LogState).enabled
    /\ LOG_FILE' = redirect_logs_to_file_flag(LogState).file
    /\ log_pc' = Disturb(t, Started("redirect_logs_to_file"))
    /\ last' = Stale(last)
    /\ UNCHANGED <<NodeVars, log_out>>

RedirectLogsFile(t, open_ok) ==
    /\ log_pc[t].at = "redirect_logs_to_file"
    /\ LOGGING_ENABLED' = redirect_logs_to_file_file(LogState, open_ok).enabled
    /\ LOG_FILE' = redirect_logs_to_file_file(LogState, open_ok).file
    /\ log_pc' = Disturb(t, Idle)
    /\ last' = LogDone("redirect_logs_to_file", t, log_pc[t],
                       ~log_file_lock_panics(LogState) /\ open_ok)
    /\ UNCHANGED <<NodeVars, log_out>>

\* log_status! (is_error FALSE) and log_error! (is_error TRUE): the flag is read
\* first, under its lock, which is released before anything is written
LogMacro(t, node_id, is_error) ==
    /\ log_pc[t] = Idle
    /\ Len(log_out) < MaxLogLines
    /\ log_pc' = [log_pc EXCEPT ![t] =
            [at |-> IF is_logging_enabled(LogState) THEN "print" ELSE "has_log_file",
             node |-> node_id, is_error |-> is_error]]
    /\ UNCHANGED <<NodeVars, last, LOGGING_ENABLED, LOG_FILE, log_out>>

\* the macro's println! / eprintln!, whatever the flag has become meanwhile
LogMacroPrint(t) ==
    /\ log_pc[t].at = "print"
    /\ log_out' = Append(log_out,
            IF log_pc[t].is_error THEN LogLine("stderr", log_pc[t].node, "Error")
            ELSE LogLine("stdout", log_pc[t].node, "status"))
    /\ log_pc' = [log_pc EXCEPT ![t] = Idle]
    /\ UNCHANGED <<NodeVars, last, LOGGING_ENABLED, LOG_FILE>>

\* the macro's second test: whether a log file is configured; it panics on a
\* poisoned LOG_FILE
LogMacroHasLogFile(t) ==
    /\ log_pc[t].at = "has_log_file"
    /\ log_pc' = [log_pc EXCEPT ![t] =
            IF ~log_file_lock_panics(LogState) /\ has_log_file(LogState)
            THEN [@ EXCEPT !.at = "write_to_log"]
            ELSE Idle]
    /\ UNCHANGED <<NodeVars, last, LOGGING_ENABLED, LOG_FILE, log_out>>

\* the macro's call of write_to_log
LogMacroWrite(t) ==
    /\ log_pc[t].at = "write_to_log"
    /\ \E write_ok \in BOOLEAN :
          log_out' = write_to_log(LogState, log_out, log_pc[t].node, log_pc[t].is_error,
                                  write_ok)
    /\ log_pc' = [log_pc EXCEPT ![t] = Idle]
    /\ UNCHANGED <<NodeVars, last, LOGGING_ENABLED, LOG_FILE>>

\* write_to_log called directly
WriteToLog(t, node_id, is_error) ==
    /\ log_pc[t] = Idle
    /\ Len(log_out) < MaxLogLines
    /\ \E write_ok \in BOOLEAN :
          log_out' = write_to_log(LogState, log_out, node_id, is_error, write_ok)
    /\ UNCHANGED <<NodeVars, last, LOGGING_ENABLED, LOG_FILE, log_pc>>

LogNext ==
    \/ \E t \in LogThreads : EnableLoggingFlag(t)
    \/ \E t \in LogThreads : EnableLoggingFile(t)
    \/ \E t \in LogThreads : DisableLogging(t)
    \/ \E t \in LogThreads : RedirectLogsFlag(t)
    \/ \E t \in LogThreads, open_ok \in BOOLEAN : RedirectLogsFile(t, open_ok)
    \/ \E t \in LogThreads, node_id \in LogNodes, is_error \in BOOLEAN :
            LogMacro(t, node_id, is_error)
    \/ \E t \in LogThreads : LogMacroPrint(t)
    \/ \E t \in LogThreads : LogMacroHasLogFile(t)
    \/ \E t \in LogThreads : LogMacroWrite(t)
    \/ \E t \in LogThreads, node_id \in LogNodes, is_error \in BOOLEAN :
            WriteToLog(t, node_id, is_error)

----------------------------------------------------------------------------
(* History: the FloodRequest copies sent for each flood *)

NoCopies == [x \in {} |-> 0]

CopiesOf(copies, flood) == IF flood \in DOMAIN copies THEN copies[flood] ELSE 0

AddCopies(copies, flood, k) ==
    IF k = 0 THEN copies
    ELSE [x \in DOMAIN copies \cup {flood} |->
            CopiesOf(copies, x) + (IF x = flood THEN k ELSE 0)]

\* the copies of packet's flood request that effects offers to channels
CountRequestCopies(copies, packet, effects) ==
    IF packet.pack_type.tag = "FloodRequest"
    THEN AddCopies(copies, <<packet.pack_type.initiator_id, packet.pack_type.flood_id>>,
                   Len(SelectSeq(Sends(effects),
                                 LAMBDA e : e.packet.pack_type.tag = "FloodRequest")))
    ELSE copies

----------------------------------------------------------------------------
(* The state after construction (TestNode::new for every node): the table and  *)
(* the seen set are empty, and the node holds the sender of a controller        *)
(* channel whose receiver new has already dropped (unbounded().0)               *)

NoOp == [op |-> "none"]

NewNodes ==
    /\ packet_send = [n \in Nodes |-> EmptyTable]
    /\ seen_flood_ids = [n \in Nodes |-> {}]
    /\ chan = EmptyChans
    /\ connected = [c \in Nodes |-> TRUE]
    /\ sim_connected = FALSE
    /\ initiated = {}
    /\ propagated = [n \in Nodes |-> {}]
    /\ request_copies = NoCopies
    /\ LoggingStart

\* SpecLog: threads of one process using the logging facility
LogInit == NewNodes /\ last = NoOp

SpecLog == LogInit /\ [][LogNext]_vars

----------------------------------------------------------------------------
(* SpecBuild: the builders applied to a packet drawn in the initial state *)

HopLists == UNION {[1..l -> NodeIds] : l \in 0..MaxHops}

\* every cursor inside the hop list, and the first one outside it
BuildHeaders == {SourceRoutingHeader(idx, hs) : <<idx, hs>> \in
                    {x \in (0..MaxHops) \X HopLists : x[1] <= Len(x[2])}}

BuildPayloads ==
    {MsgFragment(k) : k \in FragmentIndexes}
    \cup {Ack(5), Nack(5, "Dropped"),
          FloodRequest(1, 1, <<<<1, "Client">>>>),
          FloodResponse(1, <<<<1, "Client">>, <<2, "Drone">>>>)}

BuildInputs == {Packet(pt, rh, sid) :
                    <<pt, rh, sid>> \in BuildPayloads \X BuildHeaders \X SessionIds}

BuildInit ==
    /\ NewNodes
    /\ \E p \in BuildInputs, t \in NackTypes :
          last = [op |-> "input", packet |-> p, nack_type |-> t]

BuildAck ==
    /\ last.op = "input"
    /\ last' = [op |-> "build_ack", packet |-> last.packet,
                result |-> build_ack(last.packet)]
    /\ UNCHANGED <<packet_send, seen_flood_ids, chan, connected, sim_connected, initiated,
                   propagated,
                   logvars, request_copies>>

BuildNack ==
    /\ last.op = "input"
    /\ last' = [op |-> "build_nack", packet |-> last.packet, nack_type |-> last.nack_type,
                result |-> build_nack(last.packet, last.nack_type)]
    /\ UNCHANGED <<packet_send, seen_flood_ids, chan, connected, sim_connected, initiated,
                   propagated,
                   logvars, request_copies>>

ReverseRouting ==
    /\ last.op = "input"
    /\ last' = [op |-> "reverse_packet_routing_direction", packet |-> last.packet,
                result |-> reverse_packet_routing_direction(last.packet)]
    /\ UNCHANGED <<packet_send, seen_flood_ids, chan, connected, sim_connected, initiated,
                   propagated,
                   logvars, request_copies>>

\* the packet a reversal returned is reversed once more, where it is
ReverseRoutingTwice ==
    /\ last.op = "reverse_packet_routing_direction"
    /\ last.result.ok
    /\ last' = [op |-> "reverse_twice", packet |-> last.packet,
                once |-> last.result.packet,
                result |-> reverse_packet_routing_direction(last.result.packet)]
    /\ UNCHANGED <<packet_send, seen_flood_ids, chan, connected, sim_connected, initiated,
                   propagated,
                   logvars, request_copies>>

BuildNext == BuildAck \/ BuildNack \/ ReverseRouting \/ ReverseRoutingTwice

SpecBuild == BuildInit /\ [][BuildNext]_vars

----------------------------------------------------------------------------
(* The operations of one node, as actions *)

\* the node receives nothing from its own table: a sender it holds leads elsewhere
SenderChans(n) == Nodes \ {n}

\* path traces of the requests handed to the node under test: a walk of at
\* most MaxTraceLen nodes that ends at a node other than the receiver. A request
\* in flight has a non-empty trace (the initiator's entry is its first); the
\* handler's expect() on an empty one is modelled but not driven here.
Walks ==
    {w \in UNION {[1..l -> NodeIds] : l \in 1..MaxTraceLen} :
        /\ w[Len(w)] # UnitNode
        /\ \A i \in 1..(Len(w) - 1) : w[i] # w[i + 1]}

PathTrace(w) == [i \in 1..Len(w) |-> <<w[i], NodeTypeOf(w[i])>>]

\* a flood request as the neighbour w[Len(w)] sends it to self
FloodRequestFrom(w, self, i, f, sid) ==
    Packet(FloodRequest(f, i, PathTrace(w)),
           SourceRoutingHeader(1, <<w[Len(w)], self>>), sid)

FloodInputs ==
    {FloodRequestFrom(x[1], UnitNode, x[2][1], x[2][2], x[3]) :
        x \in Walks \X FloodPairs \X SessionIds}

\* packets that are no flood request, arriving at the node under test over 1 -> self
RoutedInputs ==
    {Packet(pt, SourceRoutingHeader(1, <<1, UnitNode>>), 42) :
        pt \in {MsgFragment(5), Ack(5), Nack(5, "Dropped"),
                FloodResponse(1, PathTrace(<<1, 3>>))}}

\* packets handed to forward_packet: the cursor on each possible next hop, and
\* one cursor outside the hop list
ForwardInputs ==
    {Packet(Ack(5), SourceRoutingHeader(1, <<UnitNode, d>>), 42) : d \in NodeIds}
    \cup {Packet(Ack(5), SourceRoutingHeader(1, <<UnitNode>>), 42)}

HandleInputs == FloodInputs \cup RoutedInputs

\* history: the flood a handling has broadcast, if it has
Propagated(packet, r) ==
    IF r.branch = "broadcast"
    THEN {<<packet.pack_type.initiator_id, packet.pack_type.flood_id>>}
    ELSE {}

\* the harness reads the neighbour channels empty before each call, so after a
\* call they hold what the call delivered
\* rng_next: what the node's random generator would return next; the handler
\* never asks it
\* crashing: what the node's get_crashing_behavior returns
HandlePacket(n, packet, rng_next, crashing) ==
    \E order \in BroadcastOrders(packet_send[n], packet), routed_result \in BOOLEAN :
      \E r \in {handle_packet(n, NodeTypeOf(n), crashing, packet_send[n], seen_flood_ids[n],
                               connected, sim_connected, packet, order, routed_result)} :
          /\ packet.pack_type.tag = "FloodRequest" => routed_result = FALSE
          /\ seen_flood_ids' = [seen_flood_ids EXCEPT ![n] = r.seen]
          /\ chan' = Deliver(EmptyChans, r.effects)
          /\ last' = [op |-> "handle_packet", node |-> n, packet |-> packet,
                      pre_send |-> packet_send[n], pre_seen |-> seen_flood_ids[n],
                      pre_propagated |-> propagated[n], seen_after |-> r.seen,
                      routed_result |-> routed_result, rng_next |-> rng_next,
                      crashing |-> crashing, result |-> r]
          /\ propagated' = [propagated EXCEPT ![n] = @ \cup Propagated(packet, r)]
          /\ UNCHANGED <<packet_send, connected, sim_connected, initiated,
                   logvars, request_copies>>

ForwardPacket(n, packet) ==
    \E r \in {forward_packet(n, packet_send[n], connected, sim_connected, packet)} :
        /\ chan' = Deliver(EmptyChans, r.effects)
        /\ last' = [op |-> "forward_packet", node |-> n, packet |-> packet,
                    pre_send |-> packet_send[n], pre_seen |-> seen_flood_ids[n],
                    result |-> r]
        /\ UNCHANGED <<packet_send, seen_flood_ids, connected, sim_connected, initiated,
                       propagated,
                   logvars, request_copies>>

AddChannel(n, id, sender) ==
    /\ packet_send' = [packet_send EXCEPT ![n] = add_channel(@, id, sender)]
    /\ chan' = EmptyChans
    /\ last' = [op |-> "add_channel", node |-> n, id |-> id, sender |-> sender,
                pre_send |-> packet_send[n], pre_seen |-> seen_flood_ids[n]]
    /\ UNCHANGED <<seen_flood_ids, connected, sim_connected, initiated, propagated,
                   logvars, request_copies>>

RemoveChannel(n, id) ==
    \E r \in {remove_channel(packet_send[n], id)} :
        /\ packet_send' = [packet_send EXCEPT ![n] = r.table]
        /\ chan' = EmptyChans
        /\ last' = [op |-> "remove_channel", node |-> n, id |-> id,
                    pre_send |-> packet_send[n], pre_seen |-> seen_flood_ids[n],
                    result |-> r]
        /\ UNCHANGED <<seen_flood_ids, connected, sim_connected, initiated, propagated,
                   logvars, request_copies>>

\* the harness gives the node the sender of a controller channel it reads
\* (node.sim_controller = sim_sender)
SetSimController ==
    /\ ~sim_connected
    /\ sim_connected' = TRUE
    /\ chan' = EmptyChans
    /\ last' = [op |-> "set_sim_controller"]
    /\ UNCHANGED <<packet_send, seen_flood_ids, connected, initiated, propagated,
                   logvars, request_copies>>

\* packets handed to the builders of the node under test
BuilderInputs ==
    {Packet(pt, SourceRoutingHeader(1, <<1, UnitNode>>), 42) : pt \in {MsgFragment(5), Ack(5)}}

\* build_ack and build_nack take &self: they return a packet (or panic) and
\* send nothing
CallBuildAck(n, packet) ==
    /\ chan' = EmptyChans
    /\ last' = [op |-> "build_ack", node |-> n, packet |-> packet,
                pre_send |-> packet_send[n], pre_seen |-> seen_flood_ids[n],
                result |-> build_ack(packet)]
    /\ UNCHANGED <<packet_send, seen_flood_ids, connected, sim_connected, initiated,
                   propagated, logvars, request_copies>>

CallBuildNack(n, packet, nack_type) ==
    /\ chan' = EmptyChans
    /\ last' = [op |-> "build_nack", node |-> n, packet |-> packet,
                pre_send |-> packet_send[n], pre_seen |-> seen_flood_ids[n],
                result |-> build_nack(packet, nack_type)]
    /\ UNCHANGED <<packet_send, seen_flood_ids, connected, sim_connected, initiated,
                   propagated, logvars, request_copies>>

Init == NewNodes /\ last = NoOp

\* the harness of Spec gives the node a controller channel before it calls
\* anything else, as the repository's test does; SpecFail drives the node with
\* and without one
Next ==
    \/ SetSimController
    \/ sim_connected /\ \E packet \in HandleInputs :
            HandlePacket(UnitNode, packet, RngFirst, get_crashing_behavior)
    \/ sim_connected /\ \E packet \in ForwardInputs : ForwardPacket(UnitNode, packet)
    \/ sim_connected /\ \E id \in NodeIds, sender \in SenderChans(UnitNode) :
            AddChannel(UnitNode, id, sender)
    \/ sim_connected /\ \E id \in NodeIds : RemoveChannel(UnitNode, id)
    \/ sim_connected /\ \E packet \in BuilderInputs : CallBuildAck(UnitNode, packet)
    \/ sim_connected /\ \E packet \in BuilderInputs : CallBuildNack(UnitNode, packet, "Dropped")

Spec == Init /\ [][Next]_vars

----------------------------------------------------------------------------
(* SpecFail: the node under test while receivers disappear *)

\* a neighbour's receiver is dropped: every later send to it fails
DropReceiver(c) ==
    /\ connected[c]
    /\ connected' = [connected EXCEPT ![c] = FALSE]
    /\ chan' = EmptyChans
    /\ last' = [op |-> "drop_receiver", channel |-> c]
    /\ UNCHANGED <<packet_send, seen_flood_ids, sim_connected, initiated, propagated,
                   logvars, request_copies>>

\* the simulation controller's receiver is dropped
DropSimReceiver ==
    /\ sim_connected
    /\ sim_connected' = FALSE
    /\ chan' = EmptyChans
    /\ last' = [op |-> "drop_sim_receiver"]
    /\ UNCHANGED <<packet_send, seen_flood_ids, connected, initiated, propagated,
                   logvars, request_copies>>

\* requests from the direct neighbours 1 and 3, for two floods with one flood id
FailFloodInputs ==
    {FloodRequestFrom(<<w>>, UnitNode, i, 1, 42) : <<w, i>> \in {1, 3} \X {1, 11}}

FailNext ==
    \/ \E packet \in FailFloodInputs, rng_next \in RngDraws, crashing \in CrashingBehaviors :
            HandlePacket(UnitNode, packet, rng_next, crashing)
    \/ \E packet \in ForwardInputs : ForwardPacket(UnitNode, packet)
    \/ \E id \in NodeIds, sender \in SenderChans(UnitNode) : AddChannel(UnitNode, id, sender)
    \/ \E id \in NodeIds : RemoveChannel(UnitNode, id)
    \/ \E c \in SenderChans(UnitNode) : DropReceiver(c)
    \/ DropSimReceiver
    \/ SetSimController

SpecFail == Init /\ [][FailNext]_vars

----------------------------------------------------------------------------
(* SpecLinear: the line 1 - 2 - 3, every node running the shared handler *)

LinearTable(n) == CASE n = 1 -> add_channel(EmptyTable, 2, 2)
                    [] n = 2 -> add_channel(add_channel(EmptyTable, 1, 1), 3, 3)
                    [] n = 3 -> add_channel(EmptyTable, 2, 2)

\* the floods that are started, each once: <<initiator, flood id>>
LinearFloods == {<<1, 7>>, <<3, 7>>, <<1, 8>>}

\* every node has been given a controller channel that is read
LinearInit ==
    /\ packet_send = [n \in Nodes |-> LinearTable(n)]
    /\ seen_flood_ids = [n \in Nodes |-> {}]
    /\ chan = EmptyChans
    /\ connected = [c \in Nodes |-> TRUE]
    /\ sim_connected = TRUE
    /\ initiated = {}
    /\ propagated = [n \in Nodes |-> {}]
    /\ request_copies = NoCopies
    /\ LoggingStart
    /\ last = NoOp

\* the initiator's own code sends the request, with the trace [(initiator, type)],
\* to each of its neighbours
InitiateFlood(i, f) ==
    /\ <<i, f>> \notin initiated
    /\ initiated' = initiated \cup {<<i, f>>}
    /\ \E order \in Orders(DOMAIN packet_send[i]) :
          chan' = Deliver(chan,
                    [k \in DOMAIN order |->
                        SendEffect(order[k], packet_send[i][order[k]],
                                   FloodRequestFrom(<<i>>, order[k], i, f, 42),
                                   connected[packet_send[i][order[k]]])])
    /\ request_copies' = AddCopies(request_copies, <<i, f>>,
                                    Cardinality(DOMAIN packet_send[i]))
    /\ last' = [op |-> "initiate_flood", node |-> i, flood_id |-> f]
    /\ UNCHANGED <<packet_send, seen_flood_ids, connected, sim_connected, propagated,
                   logvars>>

\* node n takes the next packet from its channel and runs handle_packet on it;
\* a panic ends the node's thread, and its receiver with it
Receive(n) ==
    /\ connected[n]
    /\ chan[n] # <<>>
    /\ \E order \in BroadcastOrders(packet_send[n], Head(chan[n])), routed_result \in BOOLEAN :
        \E r \in {handle_packet(n, NodeTypeOf(n), get_crashing_behavior, packet_send[n],
                                seen_flood_ids[n],
                                connected, sim_connected, Head(chan[n]), order,
                                routed_result)} :
          /\ Head(chan[n]).pack_type.tag = "FloodRequest" => routed_result = FALSE
          /\ seen_flood_ids' = [seen_flood_ids EXCEPT ![n] = r.seen]
          /\ chan' = Deliver([chan EXCEPT ![n] = IF r.ok THEN Tail(@) ELSE <<>>], r.effects)
          /\ connected' = [connected EXCEPT ![n] = r.ok]
          /\ last' = [op |-> "handle_packet", node |-> n, packet |-> Head(chan[n]),
                      pre_send |-> packet_send[n], pre_seen |-> seen_flood_ids[n],
                      pre_propagated |-> propagated[n], seen_after |-> r.seen,
                      routed_result |-> routed_result, result |-> r]
          /\ propagated' = [propagated EXCEPT ![n] = @ \cup Propagated(Head(chan[n]), r)]
          /\ request_copies' = CountRequestCopies(request_copies, Head(chan[n]), r.effects)
          /\ UNCHANGED <<packet_send, sim_connected, initiated, logvars>>

LinearNext ==
    \/ \E x \in LinearFloods : InitiateFlood(x[1], x[2])
    \/ \E n \in Nodes : Receive(n)

SpecLinear == LinearInit /\ [][LinearNext]_vars

----------------------------------------------------------------------------
(* SpecNet: three nodes with any neighbour tables, cycles included; every node  *)
(* keeps taking packets from its channel                                        *)

\* a node's table holds, for some of the other nodes, the sender of their channel
NetTables == UNION {[S -> Nodes] : S \in SUBSET Nodes}

NetTopologies ==
    {t \in [Nodes -> NetTables] :
        \A n \in Nodes : n \notin DOMAIN t[n] /\ \A k \in DOMAIN t[n] : t[n][k] = k}

\* the floods that are started, each once: <<initiator, flood id>>
NetFloods == {<<1, 7>>, <<2, 7>>}

NetInit ==
    /\ packet_send \in NetTopologies
    /\ seen_flood_ids = [n \in Nodes |-> {}]
    /\ chan = EmptyChans
    /\ connected = [c \in Nodes |-> TRUE]
    /\ sim_connected = TRUE
    /\ initiated = {}
    /\ propagated = [n \in Nodes |-> {}]
    /\ request_copies = NoCopies
    /\ LoggingStart
    /\ last = NoOp

NetNext ==
    \/ \E x \in NetFloods : InitiateFlood(x[1], x[2])
    \/ \E n \in Nodes : Receive(n)

\* the node's control loop takes the next packet whenever there is one
SpecNet == NetInit /\ [][NetNext]_vars /\ \A n \in Nodes : WF_vars(Receive(n))

----------------------------------------------------------------------------
(* Claims about the builders, checked under SpecBuild *)

\* the header invariant of the data model: 0 <= hop_index < len(hops)
HeaderInvariant(rh) == 0 <= rh.hop_index /\ rh.hop_index < Len(rh.hops)

\* stated from the claim: the hops up to and including the cursor, last first,
\* with the cursor on position 1
IsReversalOf(rh, back) ==
    /\ back.hop_index = 1
    /\ Len(back.hops) = rh.hop_index + 1
    /\ \A j \in 0..rh.hop_index : At(back.hops, j) = At(rh.hops, rh.hop_index - j)

NodeStateUntouched ==
    /\ packet_send = [n \in Nodes |-> EmptyTable]
    /\ seen_flood_ids = [n \in Nodes |-> {}]
    /\ chan = EmptyChans

\* C6: for every header with 0 <= hop_index < len(hops) the reversal returns the
\* hops 0..hop_index in reverse order with hop_index 1: the hops after the cursor
\* are gone, position 0 is the node at the old cursor, the last position is the
\* original first hop, and payload and session id are not touched.
C6_ReversalIsTravelledPrefixReversed ==
    (last.op = "reverse_packet_routing_direction"
        /\ HeaderInvariant(last.packet.routing_header))
    => /\ last.result.ok
       /\ IsReversalOf(last.packet.routing_header, last.result.packet.routing_header)
       /\ At(last.result.packet.routing_header.hops, 0)
            = At(last.packet.routing_header.hops, last.packet.routing_header.hop_index)
       /\ At(last.result.packet.routing_header.hops, last.packet.routing_header.hop_index)
            = At(last.packet.routing_header.hops, 0)
       /\ last.result.packet.pack_type = last.packet.pack_type
       /\ last.result.packet.session_id = last.packet.session_id

\* a three-hop header reversed at its middle hop: one hop is discarded
C6_Witness ==
    /\ last.op = "reverse_packet_routing_direction"
    /\ last.packet.routing_header = SourceRoutingHeader(1, <<1, 2, 3>>)
    /\ last.result.ok
    /\ last.result.packet.routing_header = SourceRoutingHeader(1, <<2, 1>>)

\* C7: the reversal preserves the header invariant: a header with
\* 0 <= hop_index < len(hops), a single-hop path and a cursor of 0 included, is
\* reversed to a header that satisfies 0 <= hop_index < len(hops) again, and a
\* single-hop path is reversed to the same single hop.
C7_ReversalPreservesHeaderInvariant ==
    (last.op = "reverse_packet_routing_direction"
        /\ HeaderInvariant(last.packet.routing_header))
    => /\ last.result.ok
       /\ HeaderInvariant(last.result.packet.routing_header)
       /\ (Len(last.packet.routing_header.hops) = 1
            => last.result.packet.routing_header.hops = last.packet.routing_header.hops)

\* C13: round trip of the reversal: for every header whose cursor is on its last
\* hop, a single-hop path and longer paths alike, reversing it and reversing the
\* result where it is returns a header with the hop sequence of the original.
C13_DoubleReversalRestoresPath ==
    (last.op = "reverse_twice"
        /\ HeaderInvariant(last.packet.routing_header)
        /\ last.packet.routing_header.hop_index
             = Len(last.packet.routing_header.hops) - 1)
    => /\ last.result.ok
       /\ last.result.packet.routing_header.hops = last.packet.routing_header.hops

\* C8: build_ack on a fragment with index k returns Ack(k) with the session id
\* of the input and the reversal of the input header (hop_index 1); it sends
\* nothing and changes no node state.
C8_BuildAckOnFragment ==
    (last.op = "build_ack"
        /\ last.packet.pack_type.tag = "MsgFragment"
        /\ HeaderInvariant(last.packet.routing_header))
    => /\ last.result.ok
       /\ last.result.packet.pack_type = Ack(last.packet.pack_type.fragment_index)
       /\ last.result.packet.session_id = last.packet.session_id
       /\ IsReversalOf(last.packet.routing_header, last.result.packet.routing_header)
       /\ last.result.packet.routing_header.hop_index = 1
       /\ NodeStateUntouched

\* a fragment with index 5 that has travelled 1 -> 2 of 1 -> 2 -> 3 is acknowledged
C8_Witness ==
    /\ last.op = "build_ack"
    /\ last.packet.pack_type = MsgFragment(5)
    /\ last.packet.routing_header = SourceRoutingHeader(1, <<1, 2, 3>>)
    /\ last.result.ok
    /\ last.result.packet.pack_type = Ack(5)

\* C9: build_ack on a payload that is no fragment (Ack, Nack, FloodRequest,
\* FloodResponse) aborts and returns no packet, whatever the routing header.
C9_BuildAckAbortsOnNonFragment ==
    (last.op = "build_ack" /\ last.packet.pack_type.tag # "MsgFragment")
    => last.result = Panicked

\* build_ack was applied to a Nack and to a FloodRequest with a well-formed header
C9_Witness ==
    /\ last.op = "build_ack"
    /\ last.packet.pack_type.tag \in {"Nack", "FloodRequest"}
    /\ HeaderInvariant(last.packet.routing_header)
    /\ ~last.result.ok

\* C10: build_nack never aborts because of the payload: for every payload it
\* returns Nack(kind) with the fragment's index for a fragment and 0 otherwise,
\* the session id of the input and the reversal of the input header
\* (hop_index 1); whether it returns depends on the header alone.
C10_BuildNackTolerant ==
    (last.op = "build_nack")
    => /\ last.result.ok = HeaderInvariant(last.packet.routing_header)
       /\ last.result.ok =>
            /\ last.result.packet.pack_type =
                 Nack(IF last.packet.pack_type.tag = "MsgFragment"
                      THEN last.packet.pack_type.fragment_index ELSE 0,
                      last.nack_type)
            /\ last.result.packet.session_id = last.packet.session_id
            /\ IsReversalOf(last.packet.routing_header,
                            last.result.packet.routing_header)
            /\ last.result.packet.routing_header.hop_index = 1

\* build_nack was applied to a FloodRequest and returned a Nack with index 0
C10_Witness ==
    /\ last.op = "build_nack"
    /\ last.packet.pack_type.tag = "FloodRequest"
    /\ last.result.ok
    /\ last.result.packet.pack_type = Nack(0, last.nack_type)
    /\ Len(last.result.packet.routing_header.hops) = 2

----------------------------------------------------------------------------
(* Claims about flood handling *)

\* the operation performed last handled a flood request that names its sender
FloodHandled ==
    /\ last.op = "handle_packet"
    /\ last.packet.pack_type.tag = "FloodRequest"
    /\ last.packet.pack_type.path_trace # <<>>

\* the immediate predecessor: the node of the last entry of the incoming trace
Predecessor ==
    last.packet.pack_type.path_trace[Len(last.packet.pack_type.path_trace)][1]

KeyWasSeen ==
    FloodKey(last.packet.pack_type.initiator_id, last.packet.pack_type.flood_id)
        \in last.pre_seen

SentTo(effects, id) == SelectSeq(Sends(effects), LAMBDA e : e.id = id)

\* the request as the handling node passes it on: its own entry appended
ExtendedTrace == Append(last.packet.pack_type.path_trace,
                        <<last.node, NodeTypeOf(last.node)>>)

\* every packet offered to a channel by the last operation is a flood response
NoRequestCopySent ==
    \A k \in DOMAIN Sends(last.result.effects) :
        Sends(last.result.effects)[k].packet.pack_type.tag # "FloodRequest"

\* C1: a flood request with a fresh key at a node whose table does not hold
\* exactly one entry is sent once to every neighbour but the predecessor and not
\* to the predecessor; each copy has the header [self, neighbour], hop_index 1,
\* and goes to that neighbour's channel; with 3 neighbours, the sender among
\* them, exactly 2 copies are sent.
C1_FreshRequestIsBroadcastToTheOthers ==
    (FloodHandled /\ ~KeyWasSeen /\ Cardinality(DOMAIN last.pre_send) # 1)
    => LET sends == Sends(last.result.effects)
       IN  /\ \A id \in DOMAIN last.pre_send \ {Predecessor} :
                Len(SentTo(last.result.effects, id)) = 1
           /\ SentTo(last.result.effects, Predecessor) = <<>>
           /\ Len(sends) = Cardinality(DOMAIN last.pre_send \ {Predecessor})
           /\ \A k \in DOMAIN sends :
                /\ sends[k].id \in DOMAIN last.pre_send
                /\ sends[k].to = last.pre_send[sends[k].id]
                /\ sends[k].packet.routing_header
                     = SourceRoutingHeader(1, <<last.node, sends[k].id>>)
                /\ sends[k].packet.pack_type
                     = FloodRequest(last.packet.pack_type.flood_id,
                                    last.packet.pack_type.initiator_id, ExtendedTrace)
                /\ sends[k].ok
                /\ \E j \in DOMAIN chan[sends[k].to] :
                      chan[sends[k].to][j] = sends[k].packet
           /\ (Cardinality(DOMAIN last.pre_send) = 3 /\ Predecessor \in DOMAIN last.pre_send)
                => Len(sends) = 2

\* three neighbours, the sender among them, and a fresh key: two copies leave
C1_Witness ==
    /\ FloodHandled /\ ~KeyWasSeen
    /\ Cardinality(DOMAIN last.pre_send) = 3
    /\ Predecessor \in DOMAIN last.pre_send
    /\ Len(Sends(last.result.effects)) = 2

\* C2 as claimed: a request whose key is already seen always yields exactly one
\* flood response delivered on the predecessor's channel, and no request copy.
C2_SeenRequestAlwaysDeliversOneResponse ==
    (FloodHandled /\ KeyWasSeen)
    => /\ Predecessor \in DOMAIN last.pre_send
       /\ Len(Sends(last.result.effects)) = 1
       /\ Sends(last.result.effects)[1].packet.pack_type.tag = "FloodResponse"
       /\ Sends(last.result.effects)[1].ok
       /\ chan[last.pre_send[Predecessor]] = <<Sends(last.result.effects)[1].packet>>
       /\ NoRequestCopySent

\* C2 as amended: a request whose key is already seen yields exactly one flood
\* response, addressed to the predecessor (hops[0] the node itself, hops[1] the
\* predecessor, hop_index 1) and handed to forward_packet, and no request copy:
\* the response is delivered on the channel the table holds for the predecessor
\* when that channel's receiver is connected, the handler aborts when it is not,
\* and the response is dropped when the table holds no channel for the predecessor.
C2_SeenRequestYieldsOneResponseForPredecessor ==
    (FloodHandled /\ KeyWasSeen)
    => LET sends == Sends(last.result.effects)
           response == last.result.response
       IN  /\ last.result.branch = "respond"
           /\ response.pack_type
                = FloodResponse(last.packet.pack_type.flood_id, ExtendedTrace)
           /\ response.routing_header.hop_index = 1
           /\ At(response.routing_header.hops, 0) = last.node
           /\ At(response.routing_header.hops, 1) = Predecessor
           /\ NoRequestCopySent
           /\ last.seen_after = last.pre_seen
           /\ IF Predecessor \in DOMAIN last.pre_send
              THEN /\ Len(sends) = 1
                   /\ sends[1].packet = response
                   /\ sends[1].to = last.pre_send[Predecessor]
                   /\ sends[1].ok = connected[sends[1].to]
                   /\ last.result.ok = connected[sends[1].to]
                   /\ chan[sends[1].to] = IF connected[sends[1].to]
                                          THEN <<response>> ELSE <<>>
              ELSE /\ sends = <<>>
                   /\ chan = EmptyChans
                   /\ last.result.ok

\* a seen request whose predecessor has a live channel: the response is there
C2_Witness ==
    /\ FloodHandled /\ KeyWasSeen
    /\ Cardinality(DOMAIN last.pre_send) = 2
    /\ Predecessor \in DOMAIN last.pre_send
    /\ chan[last.pre_send[Predecessor]] = <<last.result.response>>

\* C3: a node whose table holds exactly one entry answers every flood request
\* with a flood response and never broadcasts it, seen key or not: it builds the
\* response for the extended trace and hands it to forward_packet, which
\* delivers it when the table's channel for the predecessor exists.
C3_SingleNeighbourAlwaysResponds ==
    (FloodHandled /\ Cardinality(DOMAIN last.pre_send) = 1)
    => LET sends == Sends(last.result.effects)
       IN  /\ last.result.branch = "respond"
           /\ last.result.response.pack_type
                = FloodResponse(last.packet.pack_type.flood_id, ExtendedTrace)
           /\ NoRequestCopySent
           /\ last.seen_after = last.pre_seen
           /\ Len(sends) <= 1
           /\ Predecessor \in DOMAIN last.pre_send
                => /\ sends = <<SendEffect(Predecessor, last.pre_send[Predecessor],
                                           last.result.response, TRUE)>>
                   /\ chan[last.pre_send[Predecessor]] = <<last.result.response>>

\* one neighbour, the sender, and a key never seen: the response is delivered
C3_Witness ==
    /\ FloodHandled /\ ~KeyWasSeen
    /\ DOMAIN last.pre_send = {Predecessor}
    /\ last.result.branch = "respond"
    /\ chan[last.pre_send[Predecessor]] = <<last.result.response>>

\* C5: deduplication is keyed by the pair (initiator, flood id): a request is
\* treated as seen exactly when the node has propagated a flood with the same
\* initiator and the same flood id, so after (i1, f) a request (i2, f) of
\* another initiator is still fresh; the set holds one key per propagated pair,
\* and distinct pairs have distinct keys.
C5_DedupIsKeyedByInitiatorAndFloodId ==
    /\ (FloodHandled /\ Cardinality(DOMAIN last.pre_send) # 1)
        => ((last.result.branch = "respond")
              <=> (<<last.packet.pack_type.initiator_id, last.packet.pack_type.flood_id>>
                      \in last.pre_propagated))
    /\ \A n \in Nodes :
          /\ seen_flood_ids[n] = {FloodKey(x[1], x[2]) : x \in propagated[n]}
          /\ Cardinality(seen_flood_ids[n]) = Cardinality(propagated[n])
    /\ \A x, y \in FloodPairs : FloodKey(x[1], x[2]) = FloodKey(y[1], y[2]) => x = y

\* flood (1,1) was propagated, and the request of flood (11,1) is broadcast too
C5_Witness ==
    /\ FloodHandled
    /\ <<last.packet.pack_type.initiator_id, last.packet.pack_type.flood_id>> = <<11, 1>>
    /\ <<1, 1>> \in last.pre_propagated
    /\ <<11, 1>> \notin last.pre_propagated
    /\ last.result.branch = "broadcast"
    /\ Cardinality(seen_flood_ids[last.node]) = 2

\* the flood of the request handled last, as <<initiator, flood id>>
HandledFlood == <<last.packet.pack_type.initiator_id, last.packet.pack_type.flood_id>>

\* C17: loop avoidance: whatever requests arrive and whatever add_channel and
\* remove_channel calls come between them, a node broadcasts a flood at most
\* once: a request of a flood (initiator, flood id) the node has broadcast
\* before takes the response branch, a flood response is built for it and no
\* copy of the request is sent.
C17_PropagatesAtMostOncePerKey ==
    (FloodHandled /\ HandledFlood \in last.pre_propagated)
    => /\ last.result.branch = "respond"
       /\ last.result.response.pack_type
            = FloodResponse(last.packet.pack_type.flood_id, ExtendedTrace)
       /\ NoRequestCopySent
       /\ propagated[last.node] = last.pre_propagated
       /\ seen_flood_ids[last.node] = last.pre_seen

\* flood (11,1) was broadcast, the table was changed to three neighbours, and
\* another request of that flood is answered, with both other floods seen too
C17_Witness ==
    /\ FloodHandled
    /\ HandledFlood = <<11, 1>>
    /\ last.pre_propagated = FloodPairs
    /\ Cardinality(DOMAIN last.pre_send) = 3
    /\ last.result.branch = "respond"
    /\ Len(Sends(last.result.effects)) = 1

\* C19: the flood response a node builds when it ends a flood carries the flood
\* id of the request, the incoming path trace with (self id, self node type)
\* appended, and a routing header with hop_index 1 whose hops are the node ids
\* of that extended trace, last first: hops[0] is the responding node and
\* hops[1] the predecessor.
C19_ResponseCarriesExtendedTraceReversed ==
    (FloodHandled /\ last.result.branch = "respond")
    => LET response == last.result.response
           hops == response.routing_header.hops
       IN  /\ response.pack_type.tag = "FloodResponse"
           /\ response.pack_type.flood_id = last.packet.pack_type.flood_id
           /\ response.pack_type.path_trace
                = last.packet.pack_type.path_trace
                  \o <<<<last.node, NodeTypeOf(last.node)>>>>
           /\ response.routing_header.hop_index = 1
           /\ Len(hops) = Len(last.packet.pack_type.path_trace) + 1
           /\ \A j \in 1..Len(hops) :
                 hops[j] = response.pack_type.path_trace[Len(hops) + 1 - j][1]
           /\ At(hops, 0) = last.node
           /\ At(hops, 1) = Predecessor

\* node 2 ends a flood that came over 1 and 3: the response lists 1, 3, 2 and
\* is routed 2, 3, 1
C19_Witness ==
    /\ FloodHandled /\ last.result.branch = "respond"
    /\ last.packet.pack_type.path_trace = PathTrace(<<1, 3>>)
    /\ last.result.response.pack_type.path_trace
         = <<<<1, "Client">>, <<3, "Server">>, <<2, "Drone">>>>
    /\ last.result.response.routing_header = SourceRoutingHeader(1, <<2, 3, 1>>)

\* C20: a flood response is given a new session id, the value drawn from the
\* node's random source when the response is built, so that the flood id does
\* not fix it: the responses to two floods that share a flood id and differ in
\* the initiator need not carry the same session id, and the session id need
\* not be the flood id.
C20_ResponseSessionIdIsNew ==
    (FloodHandled /\ last.result.branch = "respond")
    => last.result.response.session_id = last.rng_next

----------------------------------------------------------------------------
(* Claims about forward_packet *)

\* the operation performed last ran forward_packet: directly, or as the last
\* step of a flood handling that answered with a response
Forwarded ==
    \/ last.op = "forward_packet"
    \/ FloodHandled /\ last.result.branch = "respond"

\* the packet that was handed to forward_packet
ForwardInput == IF last.op = "forward_packet" THEN last.packet ELSE last.result.response

\* C11: whenever forward_packet delivers a packet to a neighbour channel, it has
\* offered exactly one PacketSent event to the simulation controller, before the
\* send; the event's packet, the delivered packet and the input packet are equal
\* (header, session id, payload); the controller receives the event when its
\* receiver exists.
C11_EventEqualsForwardedPacket ==
    (Forwarded /\ \E k \in DOMAIN last.result.effects :
                    last.result.effects[k].kind = "send" /\ last.result.effects[k].ok)
    => LET eff == last.result.effects
           sends == Sends(eff)
           events == Events(eff)
       IN  /\ Len(sends) = 1 /\ Len(events) = 1
           /\ eff[1] = events[1]
           /\ eff[Len(eff)] = sends[1]
           /\ events[1].packet = sends[1].packet
           /\ sends[1].packet = ForwardInput
           /\ events[1].packet.routing_header = ForwardInput.routing_header
           /\ events[1].packet.session_id = ForwardInput.session_id
           /\ events[1].packet.pack_type = ForwardInput.pack_type
           /\ events[1].ok = sim_connected
           /\ chan[sends[1].to] = <<ForwardInput>>
           /\ last.result.ok

\* an Ack for neighbour 3 was forwarded: the event, then the packet on 3's channel
C11_Witness ==
    /\ last.op = "forward_packet"
    /\ 3 \in DOMAIN last.pre_send
    /\ last.packet.routing_header = SourceRoutingHeader(1, <<UnitNode, 3>>)
    /\ last.result.effects = <<EventEffect(last.packet, TRUE),
                               SendEffect(3, last.pre_send[3], last.packet, TRUE)>>
    /\ chan[last.pre_send[3]] = <<last.packet>>

\* C12: forward_packet on a packet whose next hop hops[hop_index] has no entry
\* in the Neighbor Table drops it: it sends nothing, offers no PacketSent event,
\* leaves table and seen set as they were, and returns.
C12_ForwardWithoutChannelDrops ==
    (last.op = "forward_packet"
        /\ HeaderInvariant(last.packet.routing_header)
        /\ At(last.packet.routing_header.hops, last.packet.routing_header.hop_index)
             \notin DOMAIN last.pre_send)
    => /\ Sends(last.result.effects) = <<>>
       /\ Events(last.result.effects) = <<>>
       /\ chan = EmptyChans
       /\ packet_send[last.node] = last.pre_send
       /\ seen_flood_ids[last.node] = last.pre_seen
       /\ last.result.ok

\* the table holds neighbour 1 only and the packet's next hop is 3
C12_Witness ==
    /\ last.op = "forward_packet"
    /\ DOMAIN last.pre_send = {1}
    /\ last.packet.routing_header = SourceRoutingHeader(1, <<UnitNode, 3>>)
    /\ last.result.ok
    /\ last.result.effects = <<LogEffect("log_status")>>

\* the operation performed last is one that may send: handle_packet (with the
\* flood handler, its broadcast and its forward inside) or forward_packet
MaySend == last.op \in {"handle_packet", "forward_packet"}

\* C21: every packet the core offers to a neighbour channel, in forward_packet
\* or in broadcast_packet, has 0 <= hop_index < len(hops) and goes to the
\* channel the Neighbor Table holds for the node hops[hop_index]; so a packet
\* that arrives on a channel designates the node that channel was registered for.
C21_SentToTheDesignatedHop ==
    MaySend
    => /\ \A k \in DOMAIN Sends(last.result.effects) :
             LET e == Sends(last.result.effects)[k]
             IN  /\ HeaderInvariant(e.packet.routing_header)
                 /\ e.id = At(e.packet.routing_header.hops,
                              e.packet.routing_header.hop_index)
                 /\ e.id \in DOMAIN last.pre_send
                 /\ e.to = last.pre_send[e.id]
       /\ \A c \in Nodes : \A j \in DOMAIN chan[c] :
             /\ HeaderInvariant(chan[c][j].routing_header)
             /\ \E id \in DOMAIN last.pre_send :
                   /\ last.pre_send[id] = c
                   /\ id = At(chan[c][j].routing_header.hops,
                              chan[c][j].routing_header.hop_index)

\* a request from neighbour 1 is broadcast by a node whose neighbours 1 and 3
\* are registered with their own channels: channel 3 holds the copy for hop 3
\* and channel 1 holds nothing
C21_Witness ==
    /\ FloodHandled /\ last.result.branch = "broadcast"
    /\ DOMAIN last.pre_send = {1, 3}
    /\ last.pre_send[1] = 1 /\ last.pre_send[3] = 3
    /\ Predecessor = 1
    /\ chan[1] = <<>> /\ Len(chan[3]) = 1
    /\ chan[3][1].routing_header = SourceRoutingHeader(1, <<UnitNode, 3>>)

\* C27: the dead-end test looks at the size of the table only. A node whose
\* only neighbour is N, handling a flood request whose predecessor P is not N,
\* takes the respond branch; the response, addressed to P, is dropped because
\* P has no channel; N gets no copy: no packet at all leaves the node.
C27_SingleOtherNeighbourSwallowsTheFlood ==
    (FloodHandled /\ Cardinality(DOMAIN last.pre_send) = 1
                  /\ Predecessor \notin DOMAIN last.pre_send)
    => /\ last.result.branch = "respond"
       /\ last.result.response.pack_type.tag = "FloodResponse"
       /\ At(last.result.response.routing_header.hops,
             last.result.response.routing_header.hop_index) = Predecessor
       /\ last.result.effects = <<LogEffect("log_status")>>
       /\ last.result.ok
       /\ chan = EmptyChans
       /\ seen_flood_ids[last.node] = last.pre_seen

\* a request with a fresh key comes from 1 to a node whose table holds 3 only
C27_Witness ==
    /\ FloodHandled
    /\ DOMAIN last.pre_send = {3} /\ last.pre_send[3] = 3
    /\ Predecessor = 1
    /\ ~KeyWasSeen
    /\ last.result.branch = "respond"
    /\ Sends(last.result.effects) = <<>>
    /\ chan = EmptyChans

\* the operation performed last is one of the core's, on the node last.node
CoreOp ==
    last.op \in {"handle_packet", "forward_packet", "build_ack", "build_nack",
                 "add_channel", "remove_channel"}

\* the key of the flood request handled last
HandledKey ==
    FloodKey(last.packet.pack_type.initiator_id, last.packet.pack_type.flood_id)

\* C22: the seen set never loses a key. Handling a flood request changes it
\* only on the propagate branch, where exactly the request's key is added; the
\* respond branch, forward_packet, build_ack, build_nack, add_channel and
\* remove_channel leave it as it was.
C22_SeenSetGrowsOnlyOnPropagate ==
    CoreOp
    => /\ last.pre_seen \subseteq seen_flood_ids[last.node]
       /\ IF FloodHandled /\ last.result.branch = "broadcast"
          THEN /\ HandledKey \notin last.pre_seen
               /\ seen_flood_ids[last.node] = last.pre_seen \cup {HandledKey}
          ELSE seen_flood_ids[last.node] = last.pre_seen

\* a request with a fresh key was propagated by a node that had seen another
\* flood: the set holds the old key and the new one
C22_Witness ==
    /\ FloodHandled /\ last.result.branch = "broadcast"
    /\ last.pre_seen = {FloodKey(11, 1)}
    /\ HandledKey = FloodKey(1, 11)
    /\ seen_flood_ids[last.node] = {FloodKey(11, 1), FloodKey(1, 11)}

----------------------------------------------------------------------------
(* Claims about failing sends, checked under SpecFail *)

\* the neighbours the broadcast of the last handling serves
Served == {k \in DOMAIN last.pre_send : k # Predecessor}

\* C23: a broadcast is best-effort. When the send of one copy fails because
\* the neighbour's receiver is gone, broadcast_packet does not abort: every
\* eligible neighbour is still offered its copy, the copies for the connected
\* ones are delivered, and a PacketSent event is emitted for every copy, the
\* failed ones included.
C23_BroadcastIsBestEffort ==
    (FloodHandled /\ last.result.branch = "broadcast")
    => LET eff == last.result.effects
       IN  /\ last.result.ok
           /\ Len(Sends(eff)) = Cardinality(Served)
           /\ Len(Events(eff)) = Cardinality(Served)
           /\ \A k \in Served :
                 /\ Len(SentTo(eff, k)) = 1
                 /\ SentTo(eff, k)[1].to = last.pre_send[k]
                 /\ SentTo(eff, k)[1].ok = connected[last.pre_send[k]]
                 /\ \E j \in DOMAIN Events(eff) :
                       Events(eff)[j].packet = SentTo(eff, k)[1].packet
           /\ \A c \in Nodes :
                 Len(chan[c]) = IF connected[c]
                                THEN Cardinality({k \in Served : last.pre_send[k] = c})
                                ELSE 0

\* neighbour 2 is reached over channel 1, whose receiver is gone, and neighbour
\* 3 over channel 3: the copy for 2 fails, the copy for 3 arrives, and both
\* were reported
C23_Witness ==
    /\ FloodHandled /\ last.result.branch = "broadcast"
    /\ Predecessor = 1
    /\ DOMAIN last.pre_send = {1, 2, 3}
    /\ last.pre_send[2] = 1 /\ last.pre_send[3] = 3
    /\ ~connected[1] /\ connected[3]
    /\ ~SentTo(last.result.effects, 2)[1].ok
    /\ Len(Events(last.result.effects)) = 2
    /\ Len(chan[3]) = 1 /\ chan[1] = <<>>

\* the next hop of the packet handed to forward_packet has a channel in the table
ForwardHasChannel ==
    LET rh == ForwardInput.routing_header
    IN  /\ rh.hop_index < Len(rh.hops)
        /\ At(rh.hops, rh.hop_index) \in DOMAIN last.pre_send

\* the channel forward_packet sends on
ForwardChannel ==
    last.pre_send[At(ForwardInput.routing_header.hops, ForwardInput.routing_header.hop_index)]

\* C24: when forward_packet finds a channel for the next hop and the send on
\* it fails, the node aborts (the failure is not logged and passed over), and
\* the PacketSent event for the packet has already been emitted: an event can
\* exist for a packet that was never delivered.
C24_FailedForwardAbortsAfterTheEvent ==
    (Forwarded /\ ForwardHasChannel /\ ~connected[ForwardChannel])
    => LET eff == last.result.effects
       IN  /\ ~last.result.ok
           /\ eff[1] = EventEffect(ForwardInput, sim_connected)
           /\ eff[Len(eff)].kind = "send"
           /\ eff[Len(eff)].packet = ForwardInput
           /\ ~eff[Len(eff)].ok
           /\ Len(Sends(eff)) = 1 /\ Len(Events(eff)) = 1
           /\ chan = EmptyChans

\* a packet for next hop 3 is forwarded while the receiver of 3's channel is
\* gone and the controller listens: the controller has the event, nobody has
\* the packet, the node has panicked
C24_Witness ==
    /\ last.op = "forward_packet"
    /\ ForwardHasChannel /\ ForwardChannel = 3
    /\ ~connected[3] /\ sim_connected
    /\ last.result.effects[1] = EventEffect(last.packet, TRUE)
    /\ ~last.result.ok
    /\ chan = EmptyChans

\* C25: a PacketSent event the controller does not take (its receiver is gone)
\* never blocks delivery: forward_packet still delivers the packet to a
\* connected next hop, and broadcast_packet still delivers every copy to the
\* connected neighbours; neither aborts, and the failure is logged.
C25_LostEventDoesNotBlockDelivery ==
    ~sim_connected
    => /\ (Forwarded /\ ForwardHasChannel /\ connected[ForwardChannel])
          => /\ last.result.ok
             /\ last.result.effects = <<EventEffect(ForwardInput, FALSE),
                                        LogEffect("log_error"),
                                        SendEffect(At(ForwardInput.routing_header.hops,
                                                      ForwardInput.routing_header.hop_index),
                                                   ForwardChannel, ForwardInput, TRUE)>>
             /\ chan = [EmptyChans EXCEPT ![ForwardChannel] = <<ForwardInput>>]
       /\ (FloodHandled /\ last.result.branch = "broadcast")
          => /\ last.result.ok
             /\ \A j \in DOMAIN Events(last.result.effects) :
                   ~Events(last.result.effects)[j].ok
             /\ \A k \in Served :
                   connected[last.pre_send[k]]
                   => /\ Len(SentTo(last.result.effects, k)) = 1
                      /\ SentTo(last.result.effects, k)[1].ok
                      /\ \E j \in DOMAIN chan[last.pre_send[k]] :
                            chan[last.pre_send[k]][j] = SentTo(last.result.effects, k)[1].packet

\* with the controller gone, a packet for next hop 3 is forwarded and is in
\* 3's channel
C25_Witness ==
    /\ ~sim_connected
    /\ last.op = "forward_packet"
    /\ ForwardHasChannel /\ ForwardChannel = 3 /\ connected[3]
    /\ last.result.ok
    /\ ~last.result.effects[1].ok
    /\ chan[3] = <<last.packet>>

----------------------------------------------------------------------------
(* Claims about the dispatcher and the Neighbor Table *)

\* C14: handle_packet dispatches on the payload: a flood request goes to
\* handle_flood_request (which answers or broadcasts) and is never passed to
\* handle_routed_packet; every other payload is passed to handle_routed_packet
\* exactly once, unchanged, and what that returns is returned; for it the core
\* sends nothing and changes neither the seen set nor the Neighbor Table.
C14_DispatchByPayload ==
    (last.op = "handle_packet")
    => IF last.packet.pack_type.tag = "FloodRequest"
       THEN /\ last.result.routed = <<>>
            /\ last.result.branch \in {"respond", "broadcast", "no_sender"}
            /\ last.result.returns = FALSE
       ELSE /\ last.result.routed = <<last.packet>>
            /\ last.result.returns = last.routed_result
            /\ last.result.effects = <<>>
            /\ last.result.ok
            /\ chan = EmptyChans
            /\ seen_flood_ids[last.node] = last.pre_seen
            /\ packet_send[last.node] = last.pre_send

\* a flood response reached a node with two neighbours and a seen key: it went
\* to handle_routed_packet, whose TRUE was returned
C14_Witness ==
    /\ last.op = "handle_packet"
    /\ last.packet.pack_type.tag = "FloodResponse"
    /\ Cardinality(DOMAIN last.pre_send) = 2
    /\ last.pre_seen # {}
    /\ last.result.routed = <<last.packet>>
    /\ last.routed_result /\ last.result.returns

\* C29: the crashing-behaviour flag has no effect on flood handling: for every
\* flood request, whether get_crashing_behavior returns true or false,
\* handle_packet runs handle_flood_request, with everything that does, and
\* returns false.
C29_CrashingFlagIsIgnored ==
    (last.op = "handle_packet" /\ last.packet.pack_type.tag = "FloodRequest")
    => /\ last.crashing \in CrashingBehaviors
       /\ last.result.returns = FALSE
       /\ \E order \in BroadcastOrders(last.pre_send, last.packet) :
             last.result
               = handle_flood_request(last.node, NodeTypeOf(last.node), last.pre_send,
                                      last.pre_seen, connected, sim_connected,
                                      last.packet, order)
                 @@ [routed |-> <<>>, returns |-> FALSE]
       /\ seen_flood_ids[last.node] = last.result.seen
       /\ chan = Deliver(EmptyChans, last.result.effects)

\* a node set to crash got a fresh request from 1 and broadcast it to 3
C29_Witness ==
    /\ FloodHandled
    /\ last.crashing
    /\ last.result.branch = "broadcast"
    /\ last.result.returns = FALSE
    /\ Predecessor = 1
    /\ DOMAIN last.pre_send = {1, 3} /\ last.pre_send[3] = 3
    /\ connected[3]
    /\ Len(chan[3]) = 1
    /\ HandledKey \in seen_flood_ids[last.node]

\* C26: the Neighbor Table changes only through add_channel and
\* remove_channel. add_channel(id, ch) makes id map to ch, replacing the sender
\* id had, and leaves every other entry as it was; handle_packet (with
\* handle_flood_request and broadcast_packet inside it), forward_packet,
\* build_ack and build_nack leave the table unchanged.
C26_TableChangesOnlyByAddAndRemove ==
    CoreOp
    => /\ packet_send[last.node] # last.pre_send
            => last.op \in {"add_channel", "remove_channel"}
       /\ last.op = "add_channel"
            => /\ DOMAIN packet_send[last.node] = DOMAIN last.pre_send \cup {last.id}
               /\ packet_send[last.node][last.id] = last.sender
               /\ \A k \in DOMAIN last.pre_send \ {last.id} :
                     packet_send[last.node][k] = last.pre_send[k]
       /\ \A n \in Nodes \ {last.node} : packet_send[n] = EmptyTable

\* neighbour 3, registered with the sender of channel 1, is registered again
\* with the sender of channel 3, next to neighbour 1
C26_Witness ==
    /\ last.op = "add_channel"
    /\ last.id = 3 /\ last.sender = 3
    /\ DOMAIN last.pre_send = {1, 3}
    /\ last.pre_send[3] = 1
    /\ packet_send[last.node][3] = 3
    /\ packet_send[last.node][1] = last.pre_send[1]

\* C15: remove_channel(id) for an id the Neighbor Table does not hold leaves the
\* table as it was (same size, same entries) and returns; for an id it holds it
\* removes that entry and no other.
C15_RemoveChannel ==
    (last.op = "remove_channel")
    => /\ last.result.ok
       /\ seen_flood_ids[last.node] = last.pre_seen
       /\ IF last.id \notin DOMAIN last.pre_send
          THEN /\ packet_send[last.node] = last.pre_send
               /\ Cardinality(DOMAIN packet_send[last.node])
                    = Cardinality(DOMAIN last.pre_send)
          ELSE /\ DOMAIN packet_send[last.node] = DOMAIN last.pre_send \ {last.id}
               /\ Cardinality(DOMAIN packet_send[last.node])
                    = Cardinality(DOMAIN last.pre_send) - 1
               /\ \A k \in DOMAIN packet_send[last.node] :
                     packet_send[last.node][k] = last.pre_send[k]

\* neighbour 3 was removed from a table that holds 1 and 2 only
C15_Witness ==
    /\ last.op = "remove_channel"
    /\ last.id = 3
    /\ DOMAIN last.pre_send = {1, 2}
    /\ packet_send[last.node] = last.pre_send
    /\ last.result.effects = <<LogEffect("log_error")>>

----------------------------------------------------------------------------
(* Claims about logging, checked under SpecLog *)

\* C16: from any logging state, an enable_logging that no other thread's
\* write interleaves with leaves stdout logging enabled and no log file
\* configured; a disable_logging that follows it leaves stdout logging disabled
\* and still no log file configured; and disable_logging never changes whether
\* a log file is configured.
C16_EnableThenDisable ==
    /\ (last.op = "enable_logging" /\ last.alone /\ last.fresh)
        => (last.ok /\ LOGGING_ENABLED /\ LOG_FILE = "None")
    /\ (last.op = "disable_logging" /\ last.fresh /\ last.follows = "enable_logging")
        => (~LOGGING_ENABLED /\ LOG_FILE = "None")
    /\ (last.op = "disable_logging" /\ last.fresh)
        => (~LOGGING_ENABLED /\ LOG_FILE = last.pre.file)

\* C30: in every reachable state of the logging facility, stdout logging
\* enabled implies that no log file is configured, also while enable_logging,
\* disable_logging and redirect_logs_to_file run concurrently in different
\* threads.
C30_StdoutExcludesLogFile ==
    ~(LOGGING_ENABLED /\ LOG_FILE = "Some")

----------------------------------------------------------------------------
(* Claims about a flood in a network, checked under SpecNet *)

NoRequestInFlight ==
    \A n \in Nodes : \A k \in DOMAIN chan[n] : chan[n][k].pack_type.tag # "FloodRequest"

RECURSIVE NeighbourCountSum(_)
NeighbourCountSum(S) ==
    IF S = {} THEN 0
    ELSE LET n == CHOOSE x \in S : TRUE
         IN Cardinality(DOMAIN packet_send[n]) + NeighbourCountSum(S \ {n})

\* the copies the initiator sends, plus one per table entry of every node
CopiesBound(flood) == Cardinality(DOMAIN packet_send[flood[1]]) + NeighbourCountSum(Nodes)

CopiesBounded ==
    \A flood \in DOMAIN request_copies : request_copies[flood] <= CopiesBound(flood)

\* C18: flood termination: in a network of any topology, cycles included, whose
\* nodes keep taking packets from their channels and where finitely many floods
\* are started, eventually no flood request is left in any channel, for good;
\* and the copies of the request ever sent for one flood number at most the
\* initiator's copies plus the sum of all nodes' neighbour counts.
C18_FloodTerminates == []CopiesBounded /\ <>[]NoRequestInFlight

\* the full triangle, all floods started and every channel drained: for flood
\* (1,7) nodes 2 and 3 have each broadcast once and four copies were sent
C18_Witness ==
    /\ \A n \in Nodes : DOMAIN packet_send[n] = Nodes \ {n}
    /\ initiated = NetFloods
    /\ chan = EmptyChans
    /\ <<1, 7>> \in propagated[2] \cap propagated[3]
    /\ CopiesOf(request_copies, <<1, 7>>) = 4

----------------------------------------------------------------------------
(* The end-to-end scenario on the line 1 - 2 - 3, checked under SpecLinear *)

IsOfFlood(packet, i, f) ==
    \/ /\ packet.pack_type.tag = "FloodRequest"
       /\ packet.pack_type.initiator_id = i /\ packet.pack_type.flood_id = f
    \/ /\ packet.pack_type.tag = "FloodResponse"
       /\ packet.pack_type.flood_id = f /\ packet.pack_type.path_trace[1][1] = i

\* the node ids of a path trace, in order
TraceNodes(trace) == [i \in 1..Len(trace) |-> trace[i][1]]

\* no node id but the initiator's occurs more than once in the request's trace
OnlyInitiatorRepeats(flood_request) ==
    \A i, j \in DOMAIN flood_request.path_trace :
        (i # j /\ flood_request.path_trace[i][1] = flood_request.path_trace[j][1])
        => flood_request.path_trace[i][1] = flood_request.initiator_id

\* C28: when every flood starts with the trace [initiator], every flood
\* request copy a broadcast sends has the sending node as the last entry of its
\* path trace, and no node id other than the initiator's occurs more than once
\* in that trace, in any topology and under any interleaving; the same is true
\* of every request waiting in a channel, whose sender is the first hop of its
\* header.
C28_TraceEndsAtSenderWithoutRepeats ==
    /\ (FloodHandled /\ last.result.branch = "broadcast")
       => \A k \in DOMAIN Sends(last.result.effects) :
             LET copy == Sends(last.result.effects)[k].packet
             IN  /\ copy.pack_type.tag = "FloodRequest"
                 /\ WhoSentMe(copy.pack_type) = last.node
                 /\ OnlyInitiatorRepeats(copy.pack_type)
    /\ \A c \in Nodes : \A j \in DOMAIN chan[c] :
          chan[c][j].pack_type.tag = "FloodRequest"
          => /\ WhoSentMe(chan[c][j].pack_type) = At(chan[c][j].routing_header.hops, 0)
             /\ OnlyInitiatorRepeats(chan[c][j].pack_type)

\* node 3, which 1 does not reach directly, got the flood of 1 from 2 and passed
\* it on to 1: the copy's trace is 1, 2, 3
C28_Witness ==
    /\ FloodHandled /\ last.result.branch = "broadcast"
    /\ last.node = 3
    /\ \E k \in DOMAIN Sends(last.result.effects) :
          /\ Sends(last.result.effects)[k].id = 1
          /\ TraceNodes(Sends(last.result.effects)[k].packet.pack_type.path_trace)
                = <<1, 2, 3>>
    /\ \E j \in DOMAIN chan[1] : TraceNodes(chan[1][j].pack_type.path_trace) = <<1, 2, 3>>

\* C4: on the line 1 - 2 - 3, when node 1 sends node 2 the request of flood 7
\* with trace [(1,.)], node 2 sends one copy to node 3 and nothing to node 1;
\* node 3 then sends one flood response to node 2 whose trace lists 1, 2, 3 and
\* whose header is hops [3,2,1], hop_index 1.
C4_LinearFloodEndToEnd ==
    /\ (last.op = "handle_packet" /\ last.node = 2
            /\ last.packet = FloodRequestFrom(<<1>>, 2, 1, 7, 42))
        => /\ last.result.branch = "broadcast"
           /\ Sends(last.result.effects)
                = <<SendEffect(3, 3,
                        Packet(FloodRequest(7, 1, PathTrace(<<1, 2>>)),
                               SourceRoutingHeader(1, <<2, 3>>), 42), TRUE)>>
           /\ chan[3][Len(chan[3])] = Sends(last.result.effects)[1].packet
    /\ (last.op = "handle_packet" /\ last.node = 3 /\ IsOfFlood(last.packet, 1, 7))
        => /\ last.packet.pack_type = FloodRequest(7, 1, PathTrace(<<1, 2>>))
           /\ last.result.branch = "respond"
           /\ Len(Sends(last.result.effects)) = 1
           /\ Sends(last.result.effects)[1].to = 2
           /\ Sends(last.result.effects)[1].ok
           /\ Sends(last.result.effects)[1].packet.pack_type
                = FloodResponse(7, <<<<1, "Client">>, <<2, "Drone">>, <<3, "Server">>>>)
           /\ Sends(last.result.effects)[1].packet.routing_header
                = SourceRoutingHeader(1, <<3, 2, 1>>)
           /\ chan[2][Len(chan[2])] = Sends(last.result.effects)[1].packet
    /\ \A k \in DOMAIN chan[1] : ~IsOfFlood(chan[1][k], 1, 7)
    /\ (<<1, 7>> \in initiated /\ chan = EmptyChans)
        => /\ <<1, 7>> \in propagated[2]
           /\ <<1, 7>> \notin propagated[3]
           /\ <<1, 7>> \notin propagated[1]

\* node 3 has answered flood 7 of node 1 and its response waits at node 2
C4_Witness ==
    /\ last.op = "handle_packet" /\ last.node = 3
    /\ IsOfFlood(last.packet, 1, 7)
    /\ chan[2] # <<>>
    /\ chan[2][Len(chan[2])].pack_type.tag = "FloodResponse"
    /\ chan[2][Len(chan[2])].routing_header = SourceRoutingHeader(1, <<3, 2, 1>>)

====
